---- MODULE Spec2Model ----
(***************************************************************************)
(* Model of the Confluence RAG chatbot: the Express server (server.ts) and *)
(* ConfluenceRAGService (ragService.ts).                                   *)
(*                                                                         *)
(* JavaScript strings are modelled as sequences of one-character strings,  *)
(* so that substring, replace and trim are computed as the code computes   *)
(* them.  JavaScript runs handlers to their next await without             *)
(* interleaving, so every action is one such run.                          *)
(***************************************************************************)
EXTENDS Integers, Sequences, FiniteSets, TLC

\* ------------------------------------------------------------------ strings

Min(a, b) == IF a <= b THEN a ELSE b

Max(a, b) == IF a >= b THEN a ELSE b

\* s.substring(from0, to0) with 0-based, end-exclusive indices as in JavaScript.
Substring(s, from0, to0) == SubSeq(s, Min(from0, Len(s)) + 1, Min(to0, Len(s)))

\* TRUE iff pat occurs in s at 1-based position i.
MatchAt(s, pat, i) ==
  /\ i + Len(pat) - 1 <= Len(s)
  /\ \A k \in 1..Len(pat) : s[i + k - 1] = pat[k]

\* TRUE iff pat occurs somewhere in s (String.prototype.includes).
Contains(s, pat) == \E i \in 1..Len(s) : MatchAt(s, pat, i)

\* s.replace(/pat/g, rep) for a literal pattern: leftmost matches, left to
\* right, non-overlapping, the replacement text is never rescanned.
RECURSIVE ReplaceFrom(_, _, _, _)
ReplaceFrom(s, pat, rep, i) ==
  IF i > Len(s) THEN <<>>
  ELSE IF MatchAt(s, pat, i)
       THEN rep \o ReplaceFrom(s, pat, rep, i + Len(pat))
       ELSE <<s[i]>> \o ReplaceFrom(s, pat, rep, i + 1)

ReplaceAll(s, pat, rep) == ReplaceFrom(s, pat, rep, 1)

\* The characters JavaScript's \s matches, among those the model uses.
Whitespace == {" ", "\n", "\t"}

\* Position of the first ">" at or after i, or 0 when there is none.
NextGt(s, i) ==
  IF \E j \in i..Len(s) : s[j] = ">"
  THEN CHOOSE j \in i..Len(s) : s[j] = ">" /\ \A k \in i..(j - 1) : s[k] # ">"
  ELSE 0

\* s.replace(/<[^>]*>/g, ' '): a "<" together with everything up to the next
\* ">" becomes one space; a "<" with no ">" after it is left alone.
RECURSIVE StripTagsFrom(_, _)
StripTagsFrom(s, i) ==
  IF i > Len(s) THEN <<>>
  ELSE IF s[i] = "<" /\ NextGt(s, i + 1) # 0
       THEN <<" ">> \o StripTagsFrom(s, NextGt(s, i + 1) + 1)
       ELSE <<s[i]>> \o StripTagsFrom(s, i + 1)

StripTags(s) == StripTagsFrom(s, 1)

\* s.replace(/\s+/g, ' '): every maximal run of whitespace becomes one space.
RECURSIVE CollapseFrom(_, _)
CollapseFrom(s, i) ==
  IF i > Len(s) THEN <<>>
  ELSE IF s[i] \in Whitespace
       THEN IF i > 1 /\ s[i - 1] \in Whitespace
            THEN CollapseFrom(s, i + 1)
            ELSE <<" ">> \o CollapseFrom(s, i + 1)
       ELSE <<s[i]>> \o CollapseFrom(s, i + 1)

CollapseWhitespace(s) == CollapseFrom(s, 1)

\* s.trim(): leading and trailing whitespace removed.
Trim(s) ==
  LET keep == {i \in 1..Len(s) : s[i] \notin Whitespace}
  IN IF keep = {} THEN <<>>
     ELSE SubSeq(s, CHOOSE i \in keep : \A j \in keep : i <= j,
                    CHOOSE i \in keep : \A j \in keep : i >= j)

\* The named entities stripHtml decodes, as character sequences.
EntNbsp == <<"&", "n", "b", "s", "p", ";">>
EntAmp == <<"&", "a", "m", "p", ";">>
EntLt == <<"&", "l", "t", ";">>
EntGt == <<"&", "g", "t", ";">>
EntQuot == <<"&", "q", "u", "o", "t", ";">>

\* Faulty variant: the last entity replacement (&quot;) left out.
stripHtmlNoQuot(html) ==
  Trim(CollapseWhitespace(
    ReplaceAll(ReplaceAll(ReplaceAll(ReplaceAll(
      StripTags(html), EntNbsp, <<" ">>), EntAmp, <<"&">>), EntLt, <<"<">>),
      EntGt, <<">">>)))

\* ConfluenceRAGService.stripHtml: the seven chained calls, in source order.
stripHtml(html) ==
  Trim(CollapseWhitespace(
    ReplaceAll(ReplaceAll(ReplaceAll(ReplaceAll(ReplaceAll(
      StripTags(html), EntNbsp, <<" ">>), EntAmp, <<"&">>), EntLt, <<"<">>),
      EntGt, <<">">>), EntQuot, <<"\"">>)))

\* The excerpt length of query()'s sources.
EXCERPT_LEN == 200

\* The marker query() appends to an excerpt.
Marker == <<".", ".", ".">>

\* doc.pageContent.substring(0, 200) + '...'
Excerpt(pageContent) == Substring(pageContent, 0, EXCERPT_LEN) \o Marker

\* ------------------------------------------------------------------ bounds

\* Concurrent chat requests the server specification admits at a time.
NumSlots == 2

\* Chat requests the server specification admits in one run.
MaxChats == 3

\* Pages one Confluence fetch returns, at most.
MaxPages == 2

\* Chat requests the conversation specification admits in one run.
MaxSeqChats == 11

\* Turns the observer's record of appended turns keeps.
LogKeep == 22

\* Tokens a raw page body is built from, at most (normalizer specification).
MaxTokens == 3

\* Length of a document text, at most (excerpt specification).
MaxTextLen == 500

\* ---------------------------------------------------------------- JS values

Null == "null"

Undefined == [t |-> "undefined", v |-> ""]

Num(v) == [t |-> "number", v |-> v]

Str(v) == [t |-> "string", v |-> v]

\* JavaScript truthiness of a request field (!message is its negation).
Truthy(m) ==
  CASE m.t = "undefined" -> FALSE
    [] m.t = "number" -> m.v # "0"
    [] m.t = "string" -> m.v # ""

\* typeof message
TypeOf(m) == m.t

\* -------------------------------------------------------------------- state

VARIABLES
  isInitialized,        \* server.ts: let isInitialized
  initializationError,  \* server.ts: let initializationError (Null or a message)
  initPc,               \* where the start-up IIFE / initialize() stands
  documents,            \* initialize(): const documents, once fetched
  vectorStore,          \* ragService.vectorStore
  chain,                \* ragService.chain (Null or "chain")
  chatHistory,          \* ragService.chatHistory
  req,                  \* chat requests suspended in chain.call, per slot
  nChat,                \* chat requests received so far
  lastEvent,            \* the last output: an HTTP response or a chain.call
  log,                  \* observer: the last LogKeep turns pushed since a clear
  fnIn,                 \* input of the pure function under test
  fnOut,                \* its output
  fnPc                  \* "idle", "input" or "done"

vars == <<isInitialized, initializationError, initPc, documents, vectorStore,
          chain, chatHistory, req, nChat, lastEvent, log, fnIn, fnOut, fnPc>>

serverVars == <<isInitialized, initializationError, initPc, documents,
                vectorStore, chain, chatHistory, req, nChat, lastEvent, log>>

fnVars == <<fnIn, fnOut, fnPc>>

Slots == 1..NumSlots

NullStore == [isNull |-> TRUE, docs |-> <<>>]

\* question is the JavaScript value query() was called with.
IdleReq == [pc |-> "idle", question |-> Undefined]

\* State after the module is loaded: new ConfluenceRAGService(), the two
\* flags, and the IIFE suspended in its first await (the page fetch).
InitServer ==
  /\ isInitialized = FALSE
  /\ initializationError = Null
  /\ initPc = "fetching"
  /\ documents = <<>>
  /\ vectorStore = NullStore
  /\ chain = Null
  /\ chatHistory = <<>>
  /\ req = [r \in Slots |-> IdleReq]
  /\ nChat = 0
  /\ lastEvent = [kind |-> "none"]
  /\ log = <<>>

InitFnIdle == fnIn = <<>> /\ fnOut = <<>> /\ fnPc = "idle"

Init == InitServer /\ InitFnIdle

\* ----------------------------------------------------------- initialization

MsgMissingConfig == "Missing Confluence configuration"
MsgNoDocuments == "No documents found in Confluence space"
MsgFetchFailed == "Request failed with status code 401"
MsgEmbedFailed == "embedding request failed"

\* The errors fetchConfluencePages can throw before it has pages.
FetchErrors == {MsgMissingConfig, MsgFetchFailed}

\* The errors MemoryVectorStore.fromDocuments can throw.
EmbedErrors == {MsgEmbedFailed}

\* fetchConfluencePages' loop: one Document per page, page.body?.storage?.value
\* || '' through stripHtml; no page is skipped.  A page is its raw body here
\* (<<>> is a missing or empty body) and its id is its position.
PagesToDocuments(pages) ==
  [i \in 1..Len(pages) |-> [id |-> i, pageContent |-> stripHtml(pages[i])]]

\* MemoryVectorStore.fromDocuments(documents, embeddings): one vector per
\* document it is given.
FromDocuments(docs) == [isNull |-> FALSE, docs |-> docs]

\* catch of the IIFE: initializationError = error.message.
InitFailed(msg) ==
  /\ initializationError' = msg
  /\ initPc' = "failed"
  /\ UNCHANGED isInitialized

\* Faulty variant: the catch block also raises the ready flag.
InitFetchThrowsSetsReady(msg) ==
  /\ initPc = "fetching"
  /\ initializationError' = msg
  /\ initPc' = "failed"
  /\ isInitialized' = TRUE
  /\ UNCHANGED <<documents, vectorStore, chain, chatHistory, req, nChat,
                 lastEvent, log, fnVars>>

\* fetchConfluencePages throws (missing configuration, or axios.get rejects);
\* initialize() rethrows and the IIFE records the message.
InitFetchThrows(msg) ==
  /\ initPc = "fetching"
  /\ InitFailed(msg)
  /\ UNCHANGED <<documents, vectorStore, chain, chatHistory, req, nChat,
                 lastEvent, log, fnVars>>

\* Faulty variant: the ready flag is raised as soon as the pages are fetched,
\* before the vector store and the chain are built.
InitFetchReturnsSetsReady(pages) ==
  /\ initPc = "fetching"
  /\ IF Len(PagesToDocuments(pages)) = 0
     THEN InitFailed(MsgNoDocuments) /\ UNCHANGED documents
     ELSE /\ documents' = PagesToDocuments(pages)
          /\ initPc' = "embedding"
          /\ isInitialized' = TRUE
          /\ UNCHANGED initializationError
  /\ UNCHANGED <<vectorStore, chain, chatHistory, req, nChat, lastEvent, log,
                 fnVars>>

\* axios.get resolves with the pages: documents are built; an empty list
\* throws, otherwise initialize() suspends in MemoryVectorStore.fromDocuments.
InitFetchReturns(pages) ==
  /\ initPc = "fetching"
  /\ IF Len(PagesToDocuments(pages)) = 0
     THEN InitFailed(MsgNoDocuments) /\ UNCHANGED documents
     ELSE /\ documents' = PagesToDocuments(pages)
          /\ initPc' = "embedding"
          /\ UNCHANGED <<isInitialized, initializationError>>
  /\ UNCHANGED <<vectorStore, chain, chatHistory, req, nChat, lastEvent, log,
                 fnVars>>

\* fromDocuments rejects: initialize() rethrows, the IIFE records the message.
InitEmbedThrows(msg) ==
  /\ initPc = "embedding"
  /\ InitFailed(msg)
  /\ UNCHANGED <<documents, vectorStore, chain, chatHistory, req, nChat,
                 lastEvent, log, fnVars>>

\* fromDocuments resolves: the store and the chain are set, initialize()
\* returns, and the IIFE's continuation sets isInitialized in the same
\* microtask drain (no request handler runs in between).
InitEmbedReturns ==
  /\ initPc = "embedding"
  /\ vectorStore' = FromDocuments(documents)
  /\ chain' = "chain"
  /\ isInitialized' = TRUE
  /\ initPc' = "ready"
  /\ UNCHANGED <<initializationError, documents, chatHistory, req, nChat,
                 lastEvent, log, fnVars>>

\* ------------------------------------------------------------ conversation

\* The bound on chatHistory ("Keep only last 10 messages").
MAX_TURNS == 10

\* The number of documents the retriever returns (asRetriever(4)).
RETRIEVE_K == 4

Turn(role, content) == [role |-> role, content |-> content]

\* h.slice(-n): the last n elements (all of h when it is shorter).
SliceLast(h, n) == SubSeq(h, Max(Len(h) - n, 0) + 1, Len(h))

\* Faulty variant: the first ten turns are kept instead of the last ten.
TruncateKeepsOldest(h) ==
  IF Len(h) > MAX_TURNS THEN SubSeq(h, 1, MAX_TURNS) ELSE h

\* Faulty variant: an off-by-one slice keeps nine turns.
TruncateKeepsNine(h) ==
  IF Len(h) > MAX_TURNS THEN SliceLast(h, MAX_TURNS - 1) ELSE h

\* if (this.chatHistory.length > 10) this.chatHistory = this.chatHistory.slice(-10)
Truncate(h) ==
  IF Len(h) > MAX_TURNS THEN SliceLast(h, MAX_TURNS) ELSE h

\* The two pushes of query() followed by the truncation.
PushTurns(h, question, text) ==
  Truncate(Append(Append(h, Turn("user", question)), Turn("assistant", text)))

\* query()'s formattedHistory: map by index parity (0-based even: [content, ''],
\* odd: ['', content]), then filter(pair => pair[0] !== '').
FormatHistory(h) ==
  SelectSeq([i \in 1..Len(h) |->
               IF (i - 1) % 2 = 0 THEN <<h[i].content, "">>
                                  ELSE <<"", h[i].content>>],
            LAMBDA pair : pair[1] # "")

\* result.sourceDocuments of the chain: the retriever's documents, at most
\* RETRIEVE_K of the indexed ones (index order stands for similarity order).
Retrieved(store) == SubSeq(store.docs, 1, Min(RETRIEVE_K, Len(store.docs)))

\* query()'s sources: one {title, url, excerpt} per source document; the
\* document id stands for its title and url.
Sources(docs) ==
  [i \in 1..Len(docs) |->
     [id |-> docs[i].id, excerpt |-> Excerpt(docs[i].pageContent)]]

\* ------------------------------------------------------------------- server

MsgStillInitializing == "Service is still initializing. Please wait..."
MsgMessageRequired == "Message is required"
MsgNotInitialized == "RAG system not initialized. Call initialize() first."
MsgGenerationFailed == "generation request failed"
MsgCleared == "Chat history cleared"

\* The errors chain.call can reject with.
GenErrors == {MsgGenerationFailed}

\* res.status(code).json(body) of POST /api/chat, with the request's message.
ChatResponse(code, message, body) ==
  [kind |-> "chat", code |-> code, message |-> message, body |-> body]

\* GET /api/health: the JSON body.
HealthBody ==
  [status |-> IF isInitialized THEN "ready" ELSE "initializing",
   error |-> initializationError]

GetHealth ==
  /\ lastEvent' = [kind |-> "health", code |-> 200, body |-> HealthBody]
  /\ UNCHANGED <<isInitialized, initializationError, initPc, documents,
                 vectorStore, chain, chatHistory, req, nChat, log, fnVars>>

\* Faulty variant: the readiness check is missing from the handler.
PostChatNoReadyCheck(r, message) ==
  /\ nChat' = nChat + 1
  /\ IF ~Truthy(message) \/ TypeOf(message) # "string"
     THEN /\ lastEvent' = ChatResponse(400, message, [error |-> MsgMessageRequired])
          /\ UNCHANGED req
     ELSE IF chain = Null
     THEN /\ lastEvent' = ChatResponse(500, message, [error |-> MsgNotInitialized])
          /\ UNCHANGED req
     ELSE /\ req[r].pc = "idle"
          /\ req' = [req EXCEPT ![r] = [pc |-> "awaiting", question |-> message]]
          /\ lastEvent' = [kind |-> "chainCall", question |-> message,
                           chat_history |-> FormatHistory(chatHistory)]
  /\ UNCHANGED <<isInitialized, initializationError, initPc, documents,
                 vectorStore, chain, chatHistory, log, fnVars>>

\* Faulty variant: the handler checks only !message, not the type.
PostChatNoTypeCheck(r, message) ==
  /\ nChat' = nChat + 1
  /\ IF ~isInitialized
     THEN /\ lastEvent' = ChatResponse(503, message,
                 [error |-> MsgStillInitializing, initError |-> initializationError])
          /\ UNCHANGED req
     ELSE IF ~Truthy(message)
     THEN /\ lastEvent' = ChatResponse(400, message, [error |-> MsgMessageRequired])
          /\ UNCHANGED req
     ELSE /\ req[r].pc = "idle"
          /\ req' = [req EXCEPT ![r] = [pc |-> "awaiting", question |-> message]]
          /\ lastEvent' = [kind |-> "chainCall", question |-> message,
                           chat_history |-> FormatHistory(chatHistory)]
  /\ UNCHANGED <<isInitialized, initializationError, initPc, documents,
                 vectorStore, chain, chatHistory, log, fnVars>>

\* POST /api/chat up to its response or to the await of chain.call inside
\* ragService.query(message); r is the slot the suspended request takes.
PostChat(r, message) ==
  /\ nChat' = nChat + 1
  /\ IF ~isInitialized
     THEN /\ lastEvent' = ChatResponse(503, message,
                 [error |-> MsgStillInitializing, initError |-> initializationError])
          /\ UNCHANGED req
     ELSE IF ~Truthy(message) \/ TypeOf(message) # "string"
     THEN /\ lastEvent' = ChatResponse(400, message, [error |-> MsgMessageRequired])
          /\ UNCHANGED req
     ELSE IF chain = Null
     THEN \* query() throws; the handler's catch answers 500
          /\ lastEvent' = ChatResponse(500, message, [error |-> MsgNotInitialized])
          /\ UNCHANGED req
     ELSE /\ req[r].pc = "idle"
          /\ req' = [req EXCEPT ![r] = [pc |-> "awaiting", question |-> message]]
          /\ lastEvent' = [kind |-> "chainCall", question |-> message,
                           chat_history |-> FormatHistory(chatHistory)]
  /\ UNCHANGED <<isInitialized, initializationError, initPc, documents,
                 vectorStore, chain, chatHistory, log, fnVars>>

\* chain.call resolves with {text, sourceDocuments}: query() pushes the two
\* turns, truncates and returns; the handler answers 200.  hasSources is
\* FALSE when the chain returns no sourceDocuments (sources: []).
ChainCallReturns(r, text, hasSources) ==
  /\ req[r].pc = "awaiting"
  /\ chatHistory' = PushTurns(chatHistory, req[r].question.v, text)
  /\ log' = SliceLast(log \o <<Turn("user", req[r].question.v),
                                Turn("assistant", text)>>, LogKeep)
  /\ lastEvent' = ChatResponse(200, req[r].question,
        [answer |-> text,
         sources |-> IF hasSources THEN Sources(Retrieved(vectorStore)) ELSE <<>>])
  /\ req' = [req EXCEPT ![r] = IdleReq]
  /\ UNCHANGED <<isInitialized, initializationError, initPc, documents,
                 vectorStore, chain, nChat, fnVars>>

\* Faulty variant: the user turn is pushed before the chain is called, so a failed
\* call leaves it behind.
ChainCallThrowsKeepsUserTurn(r, msg) ==
  /\ req[r].pc = "awaiting"
  /\ chatHistory' = Append(chatHistory, Turn("user", req[r].question.v))
  /\ lastEvent' = ChatResponse(500, req[r].question, [error |-> msg])
  /\ req' = [req EXCEPT ![r] = IdleReq]
  /\ UNCHANGED <<isInitialized, initializationError, initPc, documents,
                 vectorStore, chain, nChat, log, fnVars>>

\* chain.call rejects: query() logs and rethrows, the handler answers 500
\* with error.message.
ChainCallThrows(r, msg) ==
  /\ req[r].pc = "awaiting"
  /\ lastEvent' = ChatResponse(500, req[r].question, [error |-> msg])
  /\ req' = [req EXCEPT ![r] = IdleReq]
  /\ UNCHANGED <<isInitialized, initializationError, initPc, documents,
                 vectorStore, chain, chatHistory, nChat, log, fnVars>>

\* POST /api/clear: ragService.clearHistory() and the 200 answer.
PostClear ==
  /\ chatHistory' = <<>>
  /\ log' = <<>>
  /\ lastEvent' = [kind |-> "clear", code |-> 200, body |-> [message |-> MsgCleared]]
  /\ UNCHANGED <<isInitialized, initializationError, initPc, documents,
                 vectorStore, chain, req, nChat, fnVars>>

\* ----------------------------------------------------------- specifications

\* Raw page bodies of the fetch: missing or empty, markup only, markup and text.
BodyEmptyTag == <<"<", "p", ">", "<", "/", "p", ">">>
BodyHi == <<"<", "p", ">", "H", "i", "<", "/", "p", ">">>
PageBodies == {<<>>, BodyEmptyTag, BodyHi}

RECURSIVE SeqsUpTo(_, _)
SeqsUpTo(S, n) ==
  IF n = 0 THEN {<<>>}
  ELSE LET shorter == SeqsUpTo(S, n - 1)
       IN shorter \cup {Append(s, x) : s \in shorter, x \in S}

\* The page lists a fetch can return.
PageLists == SeqsUpTo(PageBodies, MaxPages)

\* The message field of a chat request body.
Messages == {Undefined, Num("123"), Num("0"), Str(""), Str("q1"), Str("q2")}

Answers == {"a1", "a2"}

\* The start-up IIFE's steps, over the page lists a fetch may return.
InitActions(pageLists) ==
  \/ \E msg \in FetchErrors : InitFetchThrows(msg)
  \/ \E pages \in pageLists : InitFetchReturns(pages)
  \/ \E msg \in EmbedErrors : InitEmbedThrows(msg)
  \/ InitEmbedReturns

\* A chat request arrives, while fewer than max have.
ChatArrives(messages, max) ==
  /\ nChat < max
  /\ \E r \in Slots, m \in messages : PostChat(r, m)

\* A suspended chain.call settles.
ChainSettles(answers) ==
  \/ \E r \in Slots, text \in answers, hs \in BOOLEAN : ChainCallReturns(r, text, hs)
  \/ \E r \in Slots, msg \in GenErrors : ChainCallThrows(r, msg)

\* The server: start-up and every route, with concurrent chat requests and
\* every kind of request body.
Next ==
  \/ InitActions(PageLists)
  \/ GetHealth
  \/ ChatArrives(Messages, MaxChats)
  \/ ChainSettles(Answers)
  \/ PostClear

Spec == Init /\ [][Next]_vars

\* Long conversations: the same server and actions, one fetched page list,
\* well-formed questions and one answer text, up to MaxSeqChats requests.
ChatPageLists == {<<BodyHi>>}

ChatMessages == {Str("q1"), Str("q2")}

ChatAnswers == {"a1"}

NextChat ==
  \/ InitActions(ChatPageLists)
  \/ GetHealth
  \/ ChatArrives(ChatMessages, MaxSeqChats)
  \/ ChainSettles(ChatAnswers)
  \/ PostClear

SpecChat == Init /\ [][NextChat]_vars

\* ------------------------------------------------------- the pure functions

\* The pieces raw page bodies are built from: the five entities, entity
\* tails (so that "&amp;" followed by "nbsp;" is a doubly encoded entity),
\* tag delimiters, a letter and a space.
Tokens ==
  {EntNbsp, EntAmp, EntLt, EntGt, EntQuot,
   <<"n", "b", "s", "p", ";">>, <<"a", "m", "p", ";">>, <<"l", "t", ";">>,
   <<"<">>, <<">">>, <<"b">>, <<" ">>}

RECURSIVE Flatten(_)
Flatten(ss) == IF ss = <<>> THEN <<>> ELSE Head(ss) \o Flatten(Tail(ss))

\* The raw page bodies of the normalizer specification.
RawBodies == {Flatten(ts) : ts \in SeqsUpTo(Tokens, MaxTokens)}

\* The normalizer alone: a raw body is drawn, then stripHtml is applied.
InitStrip == InitServer /\ fnIn \in RawBodies /\ fnOut = <<>> /\ fnPc = "input"

ApplyStripHtml ==
  /\ fnPc = "input"
  /\ fnOut' = stripHtml(fnIn)
  /\ fnPc' = "done"
  /\ UNCHANGED <<fnIn, serverVars>>

NextStrip == ApplyStripHtml

SpecStrip == InitStrip /\ [][NextStrip]_vars

\* A document text of length n: letters in rotation, starting at the k-th.
Letters == <<"a", "b", "c", "d", "e">>

TextOf(n, k) == [i \in 1..n |-> Letters[((i + k) % Len(Letters)) + 1]]

DocTexts == {TextOf(n, k) : n \in 0..MaxTextLen, k \in {0, 1}}

\* The excerpt alone: a document text is drawn, then query()'s excerpt
\* expression is applied.
InitExcerpt == InitServer /\ fnIn \in DocTexts /\ fnOut = <<>> /\ fnPc = "input"

ApplyExcerpt ==
  /\ fnPc = "input"
  /\ fnOut' = Excerpt(fnIn)
  /\ fnPc' = "done"
  /\ UNCHANGED <<fnIn, serverVars>>

NextExcerpt == ApplyExcerpt

SpecExcerpt == InitExcerpt /\ [][NextExcerpt]_vars

\* ------------------------------------------------------------------- claims

IsChatResponse(e, code) == e.kind = "chat" /\ e.code = code

\* C1: after every completed query() and clearHistory(), chatHistory holds at
\* most MAX_TURNS turns and they are the most recently pushed ones since the
\* last clear, in the order pushed; once eleven queries have succeeded with
\* no clear in between (22 turns pushed), exactly 10 turns are held, user
\* turns at the odd places and assistant turns at the even places, and they
\* are the turns of the five most recent questions.
C1_BoundedRecentHistory ==
  /\ Len(chatHistory) <= MAX_TURNS
  /\ chatHistory = SliceLast(log, MAX_TURNS)
  /\ Len(log) >= 22 =>
       /\ Len(chatHistory) = 10
       /\ Cardinality({i \in 1..10 : chatHistory[i].role = "user"}) = 5
       /\ Cardinality({i \in 1..10 : chatHistory[i].role = "assistant"}) = 5
       /\ \A j \in 1..10 : chatHistory[j] = log[Len(log) - 10 + j]

\* C1 witness: eleven queries have succeeded since the last clear.
C1_Witness == Len(log) = 22 /\ Len(chatHistory) = 10 /\ nChat = 11

\* C2: the step in which a suspended query fails because chain.call rejected
\* answers with the underlying error message and leaves chatHistory exactly
\* as it was: neither turn is pushed.
C2_FailedGenerationKeepsHistory ==
  [][\A r \in Slots :
       (req[r].pc = "awaiting" /\ req'[r].pc = "idle" /\ IsChatResponse(lastEvent', 500))
       => /\ chatHistory' = chatHistory
          /\ lastEvent'.body.error \in GenErrors
          /\ lastEvent'.message = req[r].question]_vars

\* C2 witness: a generation failure was answered while the history held turns.
C2_Witness ==
  /\ IsChatResponse(lastEvent, 500)
  /\ lastEvent.body.error \in GenErrors
  /\ Len(chatHistory) >= 2

\* C3: a chat request handled while isInitialized is false is answered in the
\* same step with 503 and a body with the error and initError fields; no
\* request is left suspended, the chain is not called and chatHistory is
\* unchanged.
C3_NotReadyAnswers503 ==
  [][(nChat' = nChat + 1 /\ ~isInitialized)
     => /\ IsChatResponse(lastEvent', 503)
        /\ lastEvent'.body.error = MsgStillInitializing
        /\ lastEvent'.body.initError = initializationError
        /\ req' = req
        /\ chatHistory' = chatHistory]_vars

\* C3 witness: a 503 was answered after initialization had failed.
C3_Witness ==
  /\ IsChatResponse(lastEvent, 503)
  /\ initPc = "failed"
  /\ lastEvent.body.initError # Null

\* The readiness state the two server flags encode.
Readiness ==
  IF isInitialized
  THEN IF initializationError = Null THEN "Ready" ELSE "ReadyAndFailed"
  ELSE IF initializationError = Null THEN "NotReady" ELSE "Failed"

\* C4: the readiness state is never Ready and Failed at once; it is Ready
\* exactly when initialize() has succeeded and Failed exactly when it has
\* thrown; Ready and Failed are never left (nor the failure message changed);
\* and in every state the health answer says "ready" exactly in Ready, and
\* "initializing" with a non-null error exactly in Failed, which is what
\* every GET /api/health is answered with.
C4_ReadinessTerminal ==
  /\ [](/\ Readiness # "ReadyAndFailed"
        /\ Readiness = "Ready" <=> initPc = "ready"
        /\ Readiness = "Failed" <=> initPc = "failed"
        /\ HealthBody.status = "ready" <=> Readiness = "Ready"
        /\ (HealthBody.status = "initializing" /\ HealthBody.error # Null)
             <=> Readiness = "Failed")
  /\ [][/\ Readiness = "Ready" => Readiness' = "Ready"
        /\ Readiness = "Failed" =>
             Readiness' = "Failed" /\ initializationError' = initializationError
        /\ Readiness = "NotReady" /\ Readiness' = "Ready" => initPc = "embedding"
        /\ (lastEvent'.kind = "health" /\ lastEvent' # lastEvent) =>
             lastEvent'.body = HealthBody /\ Readiness' = Readiness]_vars

\* C4 witness: a health answer given in Failed, after a chat request was refused.
C4_Witness ==
  /\ lastEvent.kind = "health"
  /\ lastEvent.body.status = "initializing"
  /\ lastEvent.body.error = MsgNoDocuments
  /\ Readiness = "Failed"
  /\ nChat > 0

\* The message of the chat request the last output belongs to.
ArrivedMessage ==
  IF lastEvent.kind = "chat" THEN lastEvent.message
  ELSE IF lastEvent.kind = "chainCall" THEN lastEvent.question
  ELSE Undefined

\* C5: when the service is ready, a chat request whose message is missing or
\* not a string is answered 400 in the same step; no request is suspended in
\* the chain, and chatHistory and the readiness flags are unchanged.
C5_InvalidMessageAnswers400 ==
  [][(nChat' = nChat + 1 /\ isInitialized
      /\ (ArrivedMessage'.t = "undefined" \/ ArrivedMessage'.t # "string"))
     => /\ IsChatResponse(lastEvent', 400)
        /\ lastEvent'.body.error = MsgMessageRequired
        /\ req' = req
        /\ chatHistory' = chatHistory
        /\ isInitialized' = isInitialized
        /\ initializationError' = initializationError]_vars

\* C5 witness: {message: 123} was answered 400 by the ready service while a
\* conversation was under way.
C5_Witness ==
  /\ IsChatResponse(lastEvent, 400)
  /\ lastEvent.message = Num("123")
  /\ isInitialized
  /\ Len(chatHistory) >= 2

\* C6 (as claimed): the excerpt is the first 200 characters followed by the
\* marker when the text is longer than 200 characters, and the full text with
\* no marker when it is 200 characters or shorter.
C6_MarkerOnlyWhenTruncated ==
  fnPc = "done" =>
    fnOut = IF Len(fnIn) > EXCERPT_LEN
            THEN SubSeq(fnIn, 1, EXCERPT_LEN) \o Marker
            ELSE fnIn

\* C7 (as claimed): no document with empty text is in the vector index, so
\* the index is no larger than the fetched page list and strictly smaller
\* when a fetched page has empty text.
C7_EmptyDocumentsNotIndexed ==
  ~vectorStore.isNull =>
    /\ \A i \in 1..Len(vectorStore.docs) : vectorStore.docs[i].pageContent # <<>>
    /\ Len(vectorStore.docs) <= Len(documents)
    /\ (\E i \in 1..Len(documents) : documents[i].pageContent = <<>>)
         => Len(vectorStore.docs) < Len(documents)

HasDelimiter(s) == \E i \in 1..Len(s) : s[i] \in {"<", ">"}

RECURSIVE TagsWellFormedFrom(_, _, _)
TagsWellFormedFrom(s, i, inTag) ==
  IF i > Len(s) THEN ~inTag
  ELSE IF inTag THEN TagsWellFormedFrom(s, i + 1, s[i] # ">")
  ELSE IF s[i] = ">" THEN FALSE
  ELSE TagsWellFormedFrom(s, i + 1, s[i] = "<")

TagsWellFormed(s) == TagsWellFormedFrom(s, 1, FALSE)

C9_TurnsAlternate ==
  \A i \in 1..Len(chatHistory) :
    chatHistory[i].role = IF i % 2 = 1 THEN "user" ELSE "assistant"

\* C9 witness: every slot holds a request suspended in chain.call, after the
\* history has been truncated and while it is full.
C9_Witness ==
  /\ \A r \in Slots : req[r].pc = "awaiting"
  /\ Len(log) > MAX_TURNS
  /\ Len(chatHistory) = MAX_TURNS

\* The pairs (question, answer) of h: one for every user turn immediately
\* followed by an assistant turn, in order.
RECURSIVE QuestionAnswerPairs(_)
QuestionAnswerPairs(h) ==
  IF Len(h) < 2 THEN <<>>
  ELSE IF h[1].role = "user" /\ h[2].role = "assistant"
       THEN <<<<h[1].content, h[2].content>>>> \o QuestionAnswerPairs(Tail(Tail(h)))
       ELSE QuestionAnswerPairs(Tail(h))

\* C10 (as claimed): the chat_history passed to chain.call is the sequence of
\* (question, answer) pairs of chatHistory.  (While the last output is a
\* chain.call, chatHistory is what it was when query() formatted it.)
C10_HistoryIsQuestionAnswerPairs ==
  lastEvent.kind = "chainCall" =>
    lastEvent.chat_history = QuestionAnswerPairs(chatHistory)

\* C11: the vector store and the chain are built once (set together, in the
\* step that completes initialize(), and never changed afterwards); whenever
\* isInitialized is true both are non-null; a request is suspended in
\* chain.call, or a chain.call was the last output, only when the chain is
\* built; and no chat request is answered with query()'s 'RAG system not
\* initialized' failure.
C11_BuiltOnceBeforeServing ==
  /\ [](/\ isInitialized => (chain # Null /\ ~vectorStore.isNull)
        /\ (chain = Null) <=> vectorStore.isNull
        /\ \A r \in Slots : req[r].pc = "awaiting" => chain # Null
        /\ lastEvent.kind = "chainCall" => chain # Null
        /\ ~(IsChatResponse(lastEvent, 500)
             /\ lastEvent.body.error = MsgNotInitialized))
  /\ [][/\ chain # Null => (chain' = chain /\ vectorStore' = vectorStore)
        /\ (chain' # chain \/ vectorStore' # vectorStore) =>
             /\ initPc = "embedding" /\ initPc' = "ready"
             /\ vectorStore' = FromDocuments(documents)
             /\ isInitialized']_vars

\* C11 witness: a chat request was refused before the build completed, and
\* a later one is suspended in chain.call with the chain built.
C11_Witness ==
  /\ \E r \in Slots : req[r].pc = "awaiting"
  /\ lastEvent.kind = "chainCall"
  /\ isInitialized
  /\ chain # Null
  /\ nChat >= 2
  /\ chatHistory = <<>>
  /\ \A r \in Slots : req[r].pc = "awaiting" => req[r].question = lastEvent.question

====
